---- MODULE Spec2Model ----
(***************************************************************************)
(* Body-consumption layer of actix-http's HttpMessage (src/httpmessage.rs): *)
(* Readlines (line decoder), MessageBody (body collector) and UrlEncoded   *)
(* (form decoder) over a demand-driven payload stream.                     *)
(***************************************************************************)
EXTENDS Integers, Sequences, FiniteSets, TLC

VARIABLES msg, src, rl, rlRes, rlHist, mb, mbRes, mbHist, ue, ueRes, ueHist, ck, neg

vars == <<msg, src, rl, rlRes, rlHist, mb, mbRes, mbHist, ue, ueRes, ueHist, ck, neg>>
msgVars == <<msg, src>>
rlVars == <<rl, rlRes, rlHist>>
mbVars == <<mb, mbRes, mbHist>>
ueVars == <<ue, ueRes, ueHist>>

(***************************************************************************)
(* Bounds of the model.                                                    *)
(***************************************************************************)
\* total number of bytes the payload stream delivers
MaxBytes == 4
\* longest single chunk
MaxChunk == 3
\* limit(n) is called with n in 1..MaxLimit
MaxLimit == 3
\* most chunks a stream has ready within one demand of a fold
MaxReady == 1
\* Content-Length declares 0..MaxDeclared bytes (or 1000000)
MaxDeclared == 3
\* most Cookie headers of a message
MaxCookieHeaders == 2
\* longest Content-Type header text, in symbols
MaxHeaderLen == 4

(***************************************************************************)
(* Program constants.                                                      *)
(***************************************************************************)
\* b'\n'
NL == 10
\* default limit of Readlines, MessageBody and UrlEncoded
DefaultLimit == 262144

\* Bytes of a payload of text: '\n', 'a', and the two bytes 0xC2 0xA1, which
\* are the UTF-8 encoding of U+00A1 and, in ISO-8859-2, the letters U+00C2
\* and U+0104.
Byte == {NL, 97, 161, 194}
\* Bytes of a payload that is collected whole
BodyByte == {97, 161}
\* Bytes of a payload of plain lines
LineByte == {NL, 97}

None == "None"

(***************************************************************************)
(* Sequences of bytes.                                                     *)
(***************************************************************************)
RECURSIVE SeqsUpTo(_, _)
SeqsUpTo(S, n) ==
    IF n = 0 THEN {<<>>}
    ELSE LET prev == SeqsUpTo(S, n - 1)
         IN  prev \cup {Append(s, x) : s \in {p \in prev : Len(p) = n - 1}, x \in S}

\* chunks a stream may deliver: any bytes, the empty chunk included
TextChunks == SeqsUpTo(Byte, MaxChunk)
BodyChunks == SeqsUpTo(BodyByte, MaxChunk)
LineChunks == SeqsUpTo(LineByte, MaxChunk)
Chunks(s) ==
    IF s.bytes = Byte THEN TextChunks
    ELSE IF s.bytes = LineByte THEN LineChunks
    ELSE BodyChunks

RECURSIVE Concat(_)
Concat(ss) == IF ss = <<>> THEN <<>> ELSE Head(ss) \o Concat(Tail(ss))

IsPrefix(s, t) == Len(s) <= Len(t) /\ SubSeq(t, 1, Len(s)) = s

\* for (ind, b) in bytes.iter().enumerate() { if *b == b'\n' { found = Some(ind); break } }
\* 0 when no newline is found, otherwise ind + 1
FindNewline(bytes) ==
    IF \E i \in 1..Len(bytes) : bytes[i] = NL
    THEN CHOOSE i \in 1..Len(bytes) :
             bytes[i] = NL /\ \A j \in 1..(i - 1) : bytes[j] # NL
    ELSE 0

\* BytesMut::split_to(at): the first `at` bytes are returned, the rest stay
SplitHead(bytes, at) == SubSeq(bytes, 1, at)
SplitRest(bytes, at) == SubSeq(bytes, at + 1, Len(bytes))

(***************************************************************************)
(* Character sets.  A String is modelled as its sequence of code points.   *)
(***************************************************************************)
UTF_8 == "UTF_8"
ISO_8859_2 == "ISO_8859_2"

DecodeErr == [ok |-> FALSE, text |-> <<>>]

\* str::from_utf8: strict UTF-8, one- and two-byte sequences (the model's
\* alphabet holds no lead byte of a longer one)
RECURSIVE from_utf8(_)
from_utf8(bytes) ==
    IF bytes = <<>> THEN [ok |-> TRUE, text |-> <<>>]
    ELSE IF bytes[1] < 128
    THEN LET r == from_utf8(Tail(bytes))
         IN  IF r.ok THEN [ok |-> TRUE, text |-> <<bytes[1]>> \o r.text] ELSE DecodeErr
    ELSE IF bytes[1] >= 194 /\ bytes[1] <= 223 /\ Len(bytes) >= 2
            /\ bytes[2] >= 128 /\ bytes[2] <= 191
    THEN LET r == from_utf8(SubSeq(bytes, 3, Len(bytes)))
             cp == (bytes[1] - 192) * 64 + (bytes[2] - 128)
         IN  IF r.ok THEN [ok |-> TRUE, text |-> <<cp>> \o r.text] ELSE DecodeErr
    ELSE DecodeErr

\* ISO-8859-2 is a single-byte character set; every byte decodes.  Of the
\* bytes of the model only 0xA1 maps to another code point (U+0104).
Latin2Char(b) == IF b = 161 THEN 260 ELSE b

\* the decoding step of Readlines::poll: from_utf8 on the UTF-8 fast path,
\* encoding.decode(.., DecoderTrap::Strict) otherwise
decode(encoding, bytes) ==
    IF encoding = UTF_8 THEN from_utf8(bytes)
    ELSE [ok |-> TRUE, text |-> [i \in 1..Len(bytes) |-> Latin2Char(bytes[i])]]

\* String::len(): the number of bytes of the UTF-8 form of the text
RECURSIVE StrLen(_)
StrLen(text) ==
    IF text = <<>> THEN 0
    ELSE (IF Head(text) < 128 THEN 1 ELSE 2) + StrLen(Tail(text))

(***************************************************************************)
(* Header text.  The text of a header value is a sequence of symbols: the  *)
(* space, the ';' and words (a word stands for a run of characters that    *)
(* holds neither).                                                         *)
(***************************************************************************)
Sp == " "
Semi == ";"

\* str::split(';'): the pieces of the text between the ';', at least one
RECURSIVE split(_)
split(text) ==
    IF \A i \in 1..Len(text) : text[i] # Semi THEN <<text>>
    ELSE LET at == CHOOSE i \in 1..Len(text) :
                       text[i] = Semi /\ \A k \in 1..(i - 1) : text[k] # Semi
         IN  <<SubSeq(text, 1, at - 1)>> \o split(SubSeq(text, at + 1, Len(text)))

RECURSIVE trim_start(_)
trim_start(text) ==
    IF text # <<>> /\ Head(text) = Sp THEN trim_start(Tail(text)) ELSE text

RECURSIVE trim_end(_)
trim_end(text) ==
    IF text # <<>> /\ text[Len(text)] = Sp
    THEN trim_end(SubSeq(text, 1, Len(text) - 1))
    ELSE text

\* str::trim
trim(text) == trim_end(trim_start(text))

\* the words of the model that are not in lower case, and their lower case
UpperForm == "Application/X-WWW-Form-UrlEncoded"
LowerOf(sym) == IF sym = UpperForm THEN "application/x-www-form-urlencoded" ELSE sym

\* str::to_lowercase
to_lowercase(text) == [i \in 1..Len(text) |-> LowerOf(text[i])]

(***************************************************************************)
(* Headers.  A Content-Type header is described by whether it is header    *)
(* text (to_str), by that text, and by what the Mime parser makes of it:   *)
(* whether it parses and its charset parameter ("" when there is none).    *)
(***************************************************************************)
FormType == <<"application/x-www-form-urlencoded">>

CtAbsent == [present |-> FALSE, text |-> FALSE, value |-> <<>>, mime |-> FALSE, charset |-> ""]
CtValue(value, mime, charset) ==
    [present |-> TRUE, text |-> TRUE, value |-> value, mime |-> mime, charset |-> charset]
CtNotText == [present |-> TRUE, text |-> FALSE, value |-> <<>>, mime |-> FALSE, charset |-> ""]

CtForm == CtValue(FormType, TRUE, "")
CtFormUpper == CtValue(<<UpperForm>>, TRUE, "")
CtFormLatin2 == CtValue(FormType \o <<Semi, Sp, "charset=iso-8859-2">>, TRUE, "iso-8859-2")
CtFormBogus == CtValue(FormType \o <<Semi, Sp, "charset=kkkttktk">>, TRUE, "kkkttktk")
CtPlain == CtValue(<<"text/plain">>, TRUE, "")
CtPlainUtf8 == CtValue(<<"text/plain", Semi, Sp, "charset=utf-8">>, TRUE, "utf-8")
CtPlainLatin2 == CtValue(<<"text/plain", Semi, Sp, "charset=iso-8859-2">>, TRUE, "iso-8859-2")
CtPlainBogus == CtValue(<<"text/plain", Semi, Sp, "charset=kkkttktk">>, TRUE, "kkkttktk")
CtGarbage == CtValue(<<"applicatjson">>, FALSE, "")
CtJsonLatin2 ==
    CtValue(<<"application/json", Semi, Sp, "charset=ISO-8859-2">>, TRUE, "ISO-8859-2")

\* a header of which only the text is described
CtText(value) == [present |-> TRUE, text |-> TRUE, value |-> value]

\* A Content-Length header value: absent, not a number, or a number.
ClAbsent == [present |-> FALSE, parses |-> FALSE, n |-> 0]
ClGarbage == [present |-> TRUE, parses |-> FALSE, n |-> 0]
ClValue(n) == [present |-> TRUE, parses |-> TRUE, n |-> n]

\* content_type without the split at ';'
content_type_whole(m) ==
    IF m.ctype.present /\ m.ctype.text THEN trim(m.ctype.value) ELSE <<>>

\* HttpMessage::content_type
content_type(m) ==
    IF m.ctype.present /\ m.ctype.text
    THEN trim(Head(split(m.ctype.value)))
    ELSE <<>>

Ok(v) == [ok |-> TRUE, val |-> v, err |-> None]
Err(e) == [ok |-> FALSE, val |-> None, err |-> e]

\* mime_type taking a header that is not header text for no header
mime_type_lenient(m) ==
    IF m.ctype.present /\ m.ctype.text
    THEN IF m.ctype.mime THEN Ok("Some") ELSE Err("ParseError")
    ELSE Ok(None)

\* HttpMessage::mime_type: Ok(None), Ok(Some(mime)) or Err(ParseError)
mime_type(m) ==
    IF m.ctype.present
    THEN IF m.ctype.text /\ m.ctype.mime THEN Ok("Some") ELSE Err("ParseError")
    ELSE Ok(None)

\* encoding_from_whatwg_label
encoding_from_whatwg_label(label) ==
    IF label = "utf-8" THEN UTF_8
    ELSE IF label \in {"iso-8859-2", "ISO-8859-2"} THEN ISO_8859_2
    ELSE None

\* HttpMessage::encoding
encoding(m) ==
    LET mt == mime_type(m)
    IN  IF ~mt.ok THEN Err(mt.err)
        ELSE IF mt.val = None THEN Ok(UTF_8)
        ELSE IF m.ctype.charset = "" THEN Ok(UTF_8)
        ELSE IF encoding_from_whatwg_label(m.ctype.charset) = None
        THEN Err("UnknownEncoding")
        ELSE Ok(encoding_from_whatwg_label(m.ctype.charset))

(***************************************************************************)
(* The payload stream.  src is the stream of the message: the bytes it may *)
(* deliver, the bytes it has delivered, whether it is open, and whether it *)
(* was ever polled.  A view holds either the stream ("Stream") or          *)
(* Payload::None.                                                          *)
(***************************************************************************)
Stream == "Stream"

SrcInit(bytes) ==
    [bytes |-> bytes, delivered |-> <<>>, state |-> "open", polled |-> FALSE]

Ev(kind, bytes) == [kind |-> kind, bytes |-> bytes]

\* the outcomes of one poll of a payload: Ready(Some(bytes)), NotReady,
\* Ready(None) or Err.  Payload::None is at its end at once.
PollEvents(stream, s) ==
    IF stream = None THEN {Ev("End", <<>>)}
    ELSE IF s.state # "open" THEN {Ev("End", <<>>)}
    ELSE {Ev("Chunk", c) : c \in {c \in Chunks(s) : Len(s.delivered) + Len(c) <= MaxBytes}}
         \cup {Ev("NotReady", <<>>), Ev("End", <<>>), Ev("Err", <<>>)}

\* the stream after a poll with outcome ev
AfterPoll(stream, s, ev) ==
    IF stream = None THEN s
    ELSE [bytes |-> s.bytes,
          delivered |-> IF ev.kind = "Chunk" THEN s.delivered \o ev.bytes ELSE s.delivered,
          state |-> IF s.state # "open" THEN s.state
                    ELSE IF ev.kind = "End" THEN "eof"
                    ELSE IF ev.kind = "Err" THEN "failed"
                    ELSE "open",
          polled |-> TRUE]

\* HttpMessage::take_payload: the payload is moved out and Payload::None is left
take_payload(m) == [m EXCEPT !.payload = None]

(***************************************************************************)
(* Results of a demand.                                                    *)
(***************************************************************************)
NoRes == [kind |-> "NoRes", text |-> <<>>, raw |-> <<>>, err |-> None, ev |-> "NoPoll"]
NotReady == [kind |-> "NotReady", text |-> <<>>, raw |-> <<>>, err |-> None, ev |-> "NoPoll"]
ReadyNone == [kind |-> "End", text |-> <<>>, raw |-> <<>>, err |-> None, ev |-> "NoPoll"]
\* a line: its text, and the bytes it was decoded from
ReadyLine(text, raw) == [kind |-> "Line", text |-> text, raw |-> raw, err |-> None, ev |-> "NoPoll"]
Failed(e) == [kind |-> "Err", text |-> <<>>, raw |-> <<>>, err |-> e, ev |-> "NoPoll"]
\* the result of a demand, with what the stream answered within it ("NoPoll"
\* when the demand returned without polling the stream)
Saw(res, ev) == [res EXCEPT !.ev = ev.kind]

\* a view of the message has ended in an error
AnyFailed == rlHist.errored \/ mbRes.kind = "Err" \/ ueRes.kind = "Err"

(***************************************************************************)
(* Readlines                                                               *)
(***************************************************************************)
NoView == [made |-> FALSE]

\* Readlines_err losing the error
Readlines_err_lost(e) ==
    [made |-> TRUE, stream |-> None, buff |-> <<>>, limit |-> DefaultLimit,
     checked_buff |-> TRUE, encoding |-> UTF_8, err |-> None]

\* Readlines::err
Readlines_err(e) ==
    [made |-> TRUE, stream |-> None, buff |-> <<>>, limit |-> DefaultLimit,
     checked_buff |-> TRUE, encoding |-> UTF_8, err |-> e]

\* Readlines::new(req): the view, and the message it leaves
Readlines_from(m) ==
    LET enc == encoding(m)
    IN  IF ~enc.ok
        THEN [view |-> Readlines_err(enc.err), msg |-> m]
        ELSE [view |-> [made |-> TRUE, stream |-> m.payload, buff |-> <<>>,
                        limit |-> DefaultLimit, checked_buff |-> TRUE,
                        encoding |-> enc.val, err |-> None],
              msg |-> take_payload(m)]

\* HttpMessage::readlines
Readlines_new ==
    /\ ~rl.made
    /\ rl' = Readlines_from(msg).view
    /\ msg' = Readlines_from(msg).msg
    /\ rlRes' = NoRes
    /\ rlHist' = [rlHist EXCEPT !.late = AnyFailed]
    /\ UNCHANGED <<ck, neg, src, mbVars, ueVars>>

\* Readlines::limit
Readlines_limit(n) ==
    /\ rl.made
    /\ rl' = [rl EXCEPT !.limit = n]
    /\ rlRes' = NoRes
    /\ rlHist' = [rlHist EXCEPT !.lateLimit = @ \/ rlHist.demanded]
    /\ UNCHANGED <<ck, neg, msgVars, mbVars, ueVars>>

\* the line made of `seg`, or EncodingError
LineOf(enc, seg) ==
    LET d == decode(enc, seg)
    IN  IF d.ok THEN ReadyLine(d.text, seg) ELSE Failed("EncodingError")

\* PollBuffered marking the buffer as checked when the line overflows
PollBuffered_marking(r) ==
    LET at == FindNewline(r.buff)
    IN  IF at > r.limit
        THEN [rl |-> [r EXCEPT !.checked_buff = TRUE], res |-> Failed("LimitOverflow")]
        ELSE [rl |-> [r EXCEPT !.buff = SplitRest(r.buff, at)],
              res |-> LineOf(r.encoding, SplitHead(r.buff, at))]

\* Readlines::poll, the scan of the residual buffer: the decoder and the
\* result when a newline is found in a buffer not yet checked
PollBuffered(r) ==
    LET at == FindNewline(r.buff)
    IN  IF at > r.limit
        THEN [rl |-> r, res |-> Failed("LimitOverflow")]
        ELSE [rl |-> [r EXCEPT !.buff = SplitRest(r.buff, at)],
              res |-> LineOf(r.encoding, SplitHead(r.buff, at))]

\* PollChunk leaving the buffer marked as checked
PollChunk_unmarked(r, bytes) ==
    LET at == FindNewline(bytes)
    IN  IF at > 0
        THEN IF at > r.limit
             THEN [rl |-> r, res |-> Failed("LimitOverflow")]
             ELSE LET line == LineOf(r.encoding, SplitHead(bytes, at))
                  IN  IF line.kind = "Err"
                      THEN [rl |-> r, res |-> line]
                      ELSE [rl |-> [r EXCEPT !.buff = r.buff \o SplitRest(bytes, at)],
                            res |-> line]
        ELSE [rl |-> [r EXCEPT !.buff = r.buff \o bytes], res |-> NotReady]

\* PollChunk putting the rest of the chunk in the place of the buffer
PollChunk_replacing(r, bytes) ==
    LET at == FindNewline(bytes)
    IN  IF at > 0
        THEN IF at > r.limit
             THEN [rl |-> r, res |-> Failed("LimitOverflow")]
             ELSE LET line == LineOf(r.encoding, SplitHead(bytes, at))
                  IN  IF line.kind = "Err"
                      THEN [rl |-> r, res |-> line]
                      ELSE [rl |-> [r EXCEPT !.buff = SplitRest(bytes, at),
                                             !.checked_buff = FALSE],
                            res |-> line]
        ELSE [rl |-> [r EXCEPT !.buff = r.buff \o bytes], res |-> NotReady]

\* PollChunk without the check of the line against the limit
PollChunk_unchecked(r, bytes) ==
    LET at == FindNewline(bytes)
    IN  IF at > 0
        THEN LET line == LineOf(r.encoding, SplitHead(bytes, at))
             IN  IF line.kind = "Err"
                 THEN [rl |-> r, res |-> line]
                 ELSE [rl |-> [r EXCEPT !.buff = r.buff \o SplitRest(bytes, at),
                                        !.checked_buff = FALSE],
                       res |-> line]
        ELSE [rl |-> [r EXCEPT !.buff = r.buff \o bytes], res |-> NotReady]

\* Readlines::poll, Ok(Async::Ready(Some(bytes))): a chunk from the stream
PollChunk(r, bytes) ==
    LET at == FindNewline(bytes)
    IN  IF at > 0
        THEN IF at > r.limit
             THEN [rl |-> r, res |-> Failed("LimitOverflow")]
             ELSE LET line == LineOf(r.encoding, SplitHead(bytes, at))
                  IN  IF line.kind = "Err"
                      THEN [rl |-> r, res |-> line]
                      ELSE [rl |-> [r EXCEPT !.buff = r.buff \o SplitRest(bytes, at),
                                             !.checked_buff = FALSE],
                            res |-> line]
        ELSE [rl |-> [r EXCEPT !.buff = r.buff \o bytes], res |-> NotReady]

\* Readlines::poll, Ok(Async::Ready(None)): the end of the stream
PollEnd(r) ==
    IF r.buff = <<>> THEN [rl |-> r, res |-> ReadyNone]
    ELSE IF Len(r.buff) > r.limit THEN [rl |-> r, res |-> Failed("LimitOverflow")]
    ELSE LET line == LineOf(r.encoding, r.buff)
         IN  IF line.kind = "Err"
             THEN [rl |-> r, res |-> line]
             ELSE [rl |-> [r EXCEPT !.buff = <<>>], res |-> line]

\* PollStream taking the end of the stream for a stream that is not ready
PollStream_deaf(r, ev) ==
    CASE ev.kind = "Chunk" -> PollChunk(r, ev.bytes)
      [] ev.kind = "NotReady" -> [rl |-> r, res |-> NotReady]
      [] ev.kind = "End" -> [rl |-> r, res |-> NotReady]
      [] ev.kind = "Err" -> [rl |-> r, res |-> Failed("Payload")]

\* PollStream taking a stream that is not ready for one that has ended
PollStream_hasty(r, ev) ==
    CASE ev.kind = "Chunk" -> PollChunk(r, ev.bytes)
      [] ev.kind = "NotReady" -> PollEnd(r)
      [] ev.kind = "End" -> PollEnd(r)
      [] ev.kind = "Err" -> [rl |-> r, res |-> Failed("Payload")]

\* Readlines::poll, the match on self.stream.poll()
PollStream(r, ev) ==
    CASE ev.kind = "Chunk" -> PollChunk(r, ev.bytes)
      [] ev.kind = "NotReady" -> [rl |-> r, res |-> NotReady]
      [] ev.kind = "End" -> PollEnd(r)
      [] ev.kind = "Err" -> [rl |-> r, res |-> Failed("Payload")]

\* The history of a decoder: the lines it yielded, whether a demand failed,
\* whether the end of the sequence was reported, whether a demand was made
\* and whether limit() was called after one; the answers of the stream that
\* carried data or closed it (chunks that are not empty, the end, an error)
\* up to the outcome of the sequence (kept when the run is traced), that
\* outcome (the end of the sequence or the first error) and the number of
\* lines yielded before it; whether the decoder was made after a view of the
\* message had failed, and whether the stream has delivered it a chunk.
HistInit ==
    [lines |-> <<>>, errored |-> FALSE, ended |-> FALSE, demanded |-> FALSE,
     lateLimit |-> FALSE, traced |-> FALSE, script |-> <<>>, outcome |-> None,
     settled |-> 0, late |-> FALSE, fed |-> FALSE]

\* what a demand adds to the history of the decoder; `bytes` is the chunk
\* the stream delivered within it
Record(h, res, bytes) ==
    [lines |-> IF res.kind = "Line" THEN Append(h.lines, res) ELSE h.lines,
     errored |-> h.errored \/ res.kind = "Err",
     ended |-> h.ended \/ res.kind = "End",
     demanded |-> TRUE,
     lateLimit |-> h.lateLimit,
     traced |-> h.traced,
     script |-> IF h.traced /\ h.outcome = None
                     /\ \/ res.ev \in {"End", "Err"}
                        \/ res.ev = "Chunk" /\ bytes # <<>>
                THEN Append(h.script, Ev(res.ev, bytes))
                ELSE h.script,
     outcome |-> IF h.outcome # None THEN h.outcome
                 ELSE IF res.kind = "Err" THEN res.err
                 ELSE IF res.kind = "End" THEN "End"
                 ELSE None,
     settled |-> IF h.outcome = None THEN Len(h.lines) ELSE h.settled,
     late |-> h.late,
     fed |-> h.fed \/ bytes # <<>>]

\* Readlines::poll
Readlines_poll ==
    /\ rl.made
    /\ IF rl.err # None
       THEN /\ rl' = [rl EXCEPT !.err = None]
            /\ rlRes' = Failed(rl.err)
            /\ UNCHANGED src
       ELSE IF ~rl.checked_buff /\ FindNewline(rl.buff) > 0
       THEN /\ rl' = PollBuffered(rl).rl
            /\ rlRes' = PollBuffered(rl).res
            /\ UNCHANGED src
       ELSE \E ev \in PollEvents(rl.stream, src) :
              LET out == PollStream([rl EXCEPT !.checked_buff = TRUE], ev)
              IN  /\ rl' = out.rl
                  /\ rlRes' = Saw(out.res, ev)
                  /\ src' = AfterPoll(rl.stream, src, ev)
    /\ rlHist' = Record(rlHist, rlRes',
                         SubSeq(src'.delivered, Len(src.delivered) + 1,
                                Len(src'.delivered)))
    /\ UNCHANGED <<ck, neg, msg, mbVars, ueVars>>

(***************************************************************************)
(* The fold of MessageBody::poll and UrlEncoded::poll.                     *)
(*   stream.from_err().fold(BytesMut, |body, chunk| ...)                   *)
(* One poll of the fold takes every chunk the stream has ready, up to the  *)
(* first answer that is not a chunk or the first chunk that overflows.     *)
(***************************************************************************)
\* the runs of chunks a stream may have ready: at most k chunks of at most
\* `budget` bytes together
RECURSIVE ChunkRuns(_, _, _)
ChunkRuns(chunks, budget, k) ==
    IF k = 0 THEN {<<>>}
    ELSE {<<>>} \cup
         UNION {{<<c>> \o r : r \in ChunkRuns(chunks, budget - Len(c), k - 1)} :
                   c \in {c \in chunks : Len(c) <= budget}}

\* what a stream answers within one poll of a fold: chunks, then NotReady,
\* the end or an error
FoldEvents(stream, s) ==
    IF stream = None \/ s.state # "open" THEN {[chunks |-> <<>>, last |-> "End"]}
    ELSE [chunks : ChunkRuns(Chunks(s), MaxBytes - Len(s.delivered), MaxReady),
          last : {"NotReady", "End", "Err"}]

\* MessageBody_fold failing at the limit instead of beyond it
MessageBody_fold_strict(body, chunk, limit) ==
    IF (Len(body) + Len(chunk)) >= limit
    THEN Err("Overflow")
    ELSE Ok(body \o chunk)

\* MessageBody_fold comparing the chunk alone with the limit
MessageBody_fold_chunk(body, chunk, limit) ==
    IF Len(chunk) > limit
    THEN Err("Overflow")
    ELSE Ok(body \o chunk)

\* the closure of the fold of MessageBody::poll: Err(PayloadError::Overflow)
\* or the body extended by the chunk
MessageBody_fold(body, chunk, limit) ==
    IF (Len(body) + Len(chunk)) > limit
    THEN Err("Overflow")
    ELSE Ok(body \o chunk)

\* UrlEncoded_fold failing at the limit instead of beyond it
UrlEncoded_fold_strict(body, chunk, limit) ==
    IF (Len(body) + Len(chunk)) >= limit
    THEN Err("Overflow")
    ELSE Ok(body \o chunk)

\* the closure of the fold of UrlEncoded::poll: Err(UrlencodedError::Overflow)
\* or the body extended by the chunk
UrlEncoded_fold(body, chunk, limit) ==
    IF (Len(body) + Len(chunk)) > limit
    THEN Err("Overflow")
    ELSE Ok(body \o chunk)

\* the closure of the fold of view `of`
FoldChunk(of, body, chunk, limit) ==
    IF of = "MessageBody" THEN MessageBody_fold(body, chunk, limit)
    ELSE UrlEncoded_fold(body, chunk, limit)

\* Fold::poll over the answers ev of the stream.  res: "NotReady", "Ok" (the
\* body is the value) or the error; taken: the chunks the stream handed
\* over; seen: its last answer.  The body is dropped with the fold when it
\* fails.
RECURSIVE FoldPoll(_, _, _, _, _)
FoldPoll(of, body, limit, ev, taken) ==
    IF ev.chunks = <<>>
    THEN CASE ev.last = "NotReady" ->
                [body |-> body, state |-> "folding", res |-> "NotReady",
                 taken |-> taken, seen |-> "NotReady"]
           [] ev.last = "End" ->
                [body |-> body, state |-> "done", res |-> "Ok",
                 taken |-> taken, seen |-> "End"]
           [] ev.last = "Err" ->
                [body |-> <<>>, state |-> "done", res |-> "Payload",
                 taken |-> taken, seen |-> "Err"]
    ELSE LET step == FoldChunk(of, body, Head(ev.chunks), limit)
         IN  IF step.ok
             THEN FoldPoll(of, step.val, limit, [ev EXCEPT !.chunks = Tail(@)],
                           Append(taken, Head(ev.chunks)))
             ELSE [body |-> <<>>, state |-> "done", res |-> step.err,
                   taken |-> Append(taken, Head(ev.chunks)), seen |-> "Chunk"]

\* the stream after a poll of the fold
AfterFold(stream, s, out) ==
    IF stream = None THEN s
    ELSE [bytes |-> s.bytes,
          delivered |-> s.delivered \o Concat(out.taken),
          state |-> IF s.state # "open" THEN s.state
                    ELSE IF out.seen = "End" THEN "eof"
                    ELSE IF out.seen = "Err" THEN "failed"
                    ELSE "open",
          polled |-> TRUE]

\* the history of a future: whether it was polled, the limit at the first
\* poll and the result of that poll, whether it has resolved (Ready or Err),
\* how many values it yielded; whether the view was made after a view of the
\* message had failed, and whether the stream has delivered it a chunk
FutInit ==
    [demanded |-> FALSE, limit0 |-> 0, first |-> NoRes, resolved |-> FALSE,
     yields |-> 0, late |-> FALSE, fed |-> FALSE]

\* what a demand adds to the history of the future; `bytes` are the chunks
\* the stream delivered within it
Polled(h, limit, res, bytes) ==
    [demanded |-> TRUE,
     limit0 |-> IF h.demanded THEN h.limit0 ELSE limit,
     first |-> IF h.demanded THEN h.first ELSE res,
     resolved |-> res.kind \in {"Ready", "Err"},
     yields |-> h.yields + (IF res.kind = "Ready" THEN 1 ELSE 0),
     late |-> h.late,
     fed |-> h.fed \/ bytes # <<>>]

\* Ok(Async::Ready(value)): the bytes of the body
Ready(bytes) == [kind |-> "Ready", text |-> <<>>, raw |-> bytes, err |-> None, ev |-> "NoPoll"]

\* Option<usize>: None, Some(n)
NoLen == <<>>
Some(n) == <<n>>

NoFut == [state |-> "none", stream |-> None, body |-> <<>>, limit |-> 0]

\* a demand that returned before the future was made took nothing
NoOut == [taken |-> <<>>, seen |-> "NoPoll"]
NoAnswer == [chunks |-> <<>>, last |-> "NoPoll"]

\* what the stream may answer within a demand on the view `started`, whose
\* checks before the fold gave `res`
Answers(res, started, s) ==
    IF res # NoRes THEN {NoAnswer} ELSE FoldEvents(started.fut.stream, s)

\* the stream after a demand on the view `started`
AfterDemand(started, s, out) ==
    IF out.seen = "NoPoll" THEN s ELSE AfterFold(started.fut.stream, s, out)

(***************************************************************************)
(* MessageBody                                                             *)
(***************************************************************************)
\* MessageBody::err
MessageBody_err(e) ==
    [made |-> TRUE, stream |-> None, limit |-> DefaultLimit, fut |-> NoFut,
     err |-> e, length |-> NoLen]

\* MessageBody_length taking a header that does not parse for no header
MessageBody_length_lenient(m) ==
    IF m.clen.present /\ m.clen.parses THEN Ok(Some(m.clen.n)) ELSE Ok(NoLen)

\* MessageBody::new, the Content-Length header: Ok(len), or
\* Err(UnknownLength) when it is not header text or not a usize
MessageBody_length(m) ==
    IF m.clen.present
    THEN IF m.clen.parses THEN Ok(Some(m.clen.n)) ELSE Err("UnknownLength")
    ELSE Ok(NoLen)

\* MessageBody_from leaving the payload in the message
MessageBody_from_peek(m) ==
    LET len == MessageBody_length(m)
    IN  IF ~len.ok
        THEN [view |-> MessageBody_err(len.err), msg |-> m]
        ELSE [view |-> [made |-> TRUE, stream |-> m.payload, limit |-> DefaultLimit,
                        fut |-> NoFut, err |-> None, length |-> len.val],
              msg |-> m]

\* MessageBody::new(req): the view, and the message it leaves
MessageBody_from(m) ==
    LET len == MessageBody_length(m)
    IN  IF ~len.ok
        THEN [view |-> MessageBody_err(len.err), msg |-> m]
        ELSE [view |-> [made |-> TRUE, stream |-> m.payload, limit |-> DefaultLimit,
                        fut |-> NoFut, err |-> None, length |-> len.val],
              msg |-> take_payload(m)]

\* HttpMessage::body
MessageBody_new ==
    /\ ~mb.made
    /\ mb' = MessageBody_from(msg).view
    /\ msg' = MessageBody_from(msg).msg
    /\ mbHist' = [mbHist EXCEPT !.late = AnyFailed]
    /\ UNCHANGED <<ck, neg, src, mbRes, rlVars, ueVars>>

\* MessageBody::limit
MessageBody_limit(n) ==
    /\ mb.made
    /\ mb' = [mb EXCEPT !.limit = n]
    /\ UNCHANGED <<ck, neg, msgVars, mbRes, mbHist, rlVars, ueVars>>

\* MessageBody_start without the check of the declared length
MessageBody_start_unchecked(b) ==
    IF b.fut.state # "none" THEN [mb |-> b, res |-> NoRes]
    ELSE IF b.err # None
    THEN [mb |-> [b EXCEPT !.err = None], res |-> Failed(b.err)]
    ELSE [mb |-> [b EXCEPT !.length = NoLen, !.stream = None,
                           !.fut = [state |-> "folding", stream |-> b.stream,
                                    body |-> <<>>, limit |-> b.limit]],
          res |-> NoRes]

\* MessageBody_start failing a declared length equal to the limit
MessageBody_start_strict(b) ==
    IF b.fut.state # "none" THEN [mb |-> b, res |-> NoRes]
    ELSE IF b.err # None
    THEN [mb |-> [b EXCEPT !.err = None], res |-> Failed(b.err)]
    ELSE IF b.length # NoLen /\ b.length[1] >= b.limit
    THEN [mb |-> [b EXCEPT !.length = NoLen], res |-> Failed("Overflow")]
    ELSE [mb |-> [b EXCEPT !.length = NoLen, !.stream = None,
                           !.fut = [state |-> "folding", stream |-> b.stream,
                                    body |-> <<>>, limit |-> b.limit]],
          res |-> NoRes]

\* MessageBody::poll up to the making of the future: the deferred error,
\* the declared length against the limit, then the fold over the stream
MessageBody_start(b) ==
    IF b.fut.state # "none" THEN [mb |-> b, res |-> NoRes]
    ELSE IF b.err # None
    THEN [mb |-> [b EXCEPT !.err = None], res |-> Failed(b.err)]
    ELSE IF b.length # NoLen /\ b.length[1] > b.limit
    THEN [mb |-> [b EXCEPT !.length = NoLen], res |-> Failed("Overflow")]
    ELSE [mb |-> [b EXCEPT !.length = NoLen, !.stream = None,
                           !.fut = [state |-> "folding", stream |-> b.stream,
                                    body |-> <<>>, limit |-> b.limit]],
          res |-> NoRes]

\* fut.poll(): the fold, then .map(|body| body.freeze())
MessageBody_fut(b, ev) ==
    LET out == FoldPoll("MessageBody", b.fut.body, b.fut.limit, ev, <<>>)
    IN  [mb |-> [b EXCEPT !.fut.body = out.body, !.fut.state = out.state],
         res |-> [(IF out.res = "NotReady" THEN NotReady
                   ELSE IF out.res = "Ok" THEN Ready(out.body)
                   ELSE Failed(out.res)) EXCEPT !.ev = out.seen],
         out |-> out]

\* MessageBody::poll of the view b, the stream answering ev when it is
\* polled: the view, the result, and what the fold took of the stream
MessageBody_demand(b, ev) ==
    LET start == MessageBody_start(b)
    IN  IF start.res # NoRes
        THEN [mb |-> start.mb, res |-> start.res, out |-> NoOut]
        ELSE MessageBody_fut(start.mb, ev)

\* MessageBody::poll.  A future is not polled again once it has resolved.
MessageBody_poll ==
    /\ mb.made /\ ~mbHist.resolved
    /\ \E ev \in Answers(MessageBody_start(mb).res, MessageBody_start(mb).mb, src) :
          LET run == MessageBody_demand(mb, ev)
          IN  /\ mb' = run.mb
              /\ mbRes' = run.res
              /\ src' = AfterDemand(MessageBody_start(mb).mb, src, run.out)
    /\ mbHist' = Polled(mbHist, mb.limit, mbRes',
                         SubSeq(src'.delivered, Len(src.delivered) + 1,
                                Len(src'.delivered)))
    /\ UNCHANGED <<ck, neg, msg, rlVars, ueVars>>

(***************************************************************************)
(* UrlEncoded                                                              *)
(***************************************************************************)
\* UrlEncoded::err
UrlEncoded_err(e) ==
    [made |-> TRUE, stream |-> None, limit |-> DefaultLimit, fut |-> NoFut,
     err |-> e, length |-> NoLen, encoding |-> UTF_8]

\* UrlEncoded::new, the Content-Length header: Ok(len), or
\* Err(UnknownLength) when it is not header text or not a usize
UrlEncoded_length(m) ==
    IF m.clen.present
    THEN IF m.clen.parses THEN Ok(Some(m.clen.n)) ELSE Err("UnknownLength")
    ELSE Ok(NoLen)

\* UrlEncoded_from looking at the Content-Length header before the content
\* type
UrlEncoded_from_lengthfirst(m) ==
    IF ~UrlEncoded_length(m).ok
    THEN [view |-> UrlEncoded_err(UrlEncoded_length(m).err), msg |-> m]
    ELSE IF to_lowercase(content_type(m)) # FormType \/ ~encoding(m).ok
    THEN [view |-> UrlEncoded_err("ContentType"), msg |-> m]
    ELSE [view |-> [made |-> TRUE, stream |-> m.payload, limit |-> DefaultLimit,
                    fut |-> NoFut, err |-> None,
                    length |-> UrlEncoded_length(m).val,
                    encoding |-> encoding(m).val],
          msg |-> take_payload(m)]

\* UrlEncoded::new(req): the view, and the message it leaves
UrlEncoded_from(m) ==
    IF to_lowercase(content_type(m)) # FormType
    THEN [view |-> UrlEncoded_err("ContentType"), msg |-> m]
    ELSE IF ~encoding(m).ok
    THEN [view |-> UrlEncoded_err("ContentType"), msg |-> m]
    ELSE IF ~UrlEncoded_length(m).ok
    THEN [view |-> UrlEncoded_err(UrlEncoded_length(m).err), msg |-> m]
    ELSE [view |-> [made |-> TRUE, stream |-> m.payload, limit |-> DefaultLimit,
                    fut |-> NoFut, err |-> None,
                    length |-> UrlEncoded_length(m).val,
                    encoding |-> encoding(m).val],
          msg |-> take_payload(m)]

\* HttpMessage::urlencoded
UrlEncoded_new ==
    /\ ~ue.made
    /\ ue' = UrlEncoded_from(msg).view
    /\ msg' = UrlEncoded_from(msg).msg
    /\ ueHist' = [ueHist EXCEPT !.late = AnyFailed]
    /\ UNCHANGED <<ck, neg, src, ueRes, rlVars, mbVars>>

\* UrlEncoded::limit
UrlEncoded_limit(n) ==
    /\ ue.made
    /\ ue' = [ue EXCEPT !.limit = n]
    /\ UNCHANGED <<ck, neg, msgVars, ueRes, ueHist, rlVars, mbVars>>

\* UrlEncoded::poll up to the making of the future
UrlEncoded_start(u) ==
    IF u.fut.state # "none" THEN [ue |-> u, res |-> NoRes]
    ELSE IF u.err # None
    THEN [ue |-> [u EXCEPT !.err = None], res |-> Failed(u.err)]
    ELSE IF u.length # NoLen /\ u.length[1] > u.limit
    THEN [ue |-> [u EXCEPT !.length = NoLen], res |-> Failed("Overflow")]
    ELSE [ue |-> [u EXCEPT !.length = NoLen, !.stream = None,
                           !.fut = [state |-> "folding", stream |-> u.stream,
                                    body |-> <<>>, limit |-> u.limit]],
          res |-> NoRes]

\* the and_then of the future: the body is decoded with the charset and
\* deserialized; `parses` is the answer of the deserializer.  The value is
\* represented by the bytes and the text it is deserialized from.
FormOf(enc, body, parses) ==
    IF enc = UTF_8
    THEN IF parses THEN Ready(body) ELSE Failed("Parse")
    ELSE IF ~decode(enc, body).ok THEN Failed("Parse")
    ELSE IF parses THEN [Ready(body) EXCEPT !.text = decode(enc, body).text]
    ELSE Failed("Parse")

\* UrlEncoded_fut with the fold reading the limit of the view at each poll
\* instead of the limit it was made with
UrlEncoded_fut_relimit(u, ev, parses) ==
    LET out == FoldPoll("UrlEncoded", u.fut.body, u.limit, ev, <<>>)
    IN  [ue |-> [u EXCEPT !.fut.body = out.body, !.fut.state = out.state],
         res |-> [(IF out.res = "NotReady" THEN NotReady
                   ELSE IF out.res = "Ok" THEN FormOf(u.encoding, out.body, parses)
                   ELSE Failed(out.res)) EXCEPT !.ev = out.seen],
         out |-> out]

\* fut.poll(): the fold, then the and_then
UrlEncoded_fut(u, ev, parses) ==
    LET out == FoldPoll("UrlEncoded", u.fut.body, u.fut.limit, ev, <<>>)
    IN  [ue |-> [u EXCEPT !.fut.body = out.body, !.fut.state = out.state],
         res |-> [(IF out.res = "NotReady" THEN NotReady
                   ELSE IF out.res = "Ok" THEN FormOf(u.encoding, out.body, parses)
                   ELSE Failed(out.res)) EXCEPT !.ev = out.seen],
         out |-> out]

\* UrlEncoded::poll of the view u, the stream answering ev when it is
\* polled and the deserializer answering `parses`
UrlEncoded_demand(u, ev, parses) ==
    LET start == UrlEncoded_start(u)
    IN  IF start.res # NoRes
        THEN [ue |-> start.ue, res |-> start.res, out |-> NoOut]
        ELSE UrlEncoded_fut(start.ue, ev, parses)

\* the answers of the deserializer that matter after the stream answered ev
Parses(ev) == IF ev.last = "End" THEN BOOLEAN ELSE {FALSE}

\* UrlEncoded::poll.  A future is not polled again once it has resolved.
UrlEncoded_poll ==
    /\ ue.made /\ ~ueHist.resolved
    /\ \E ev \in Answers(UrlEncoded_start(ue).res, UrlEncoded_start(ue).ue, src) :
       \E parses \in Parses(ev) :
          LET run == UrlEncoded_demand(ue, ev, parses)
          IN  /\ ue' = run.ue
              /\ ueRes' = run.res
              /\ src' = AfterDemand(UrlEncoded_start(ue).ue, src, run.out)
    /\ ueHist' = Polled(ueHist, ue.limit, ueRes',
                         SubSeq(src'.delivered, Len(src.delivered) + 1,
                                Len(src'.delivered)))
    /\ UNCHANGED <<ck, neg, msg, rlVars, mbVars>>

(***************************************************************************)
(* Cookies.  A Cookie header value is described by whether its bytes are   *)
(* UTF-8 and by its text.  The message carries its Cookie headers in       *)
(* msg.cookie and the Cookies entry of its extensions in msg.ext (Option:  *)
(* <<>> or <<cookies>>).                                                   *)
(***************************************************************************)
\* "a=%31; b=2"
HdrAB == [utf8 |-> TRUE, text |-> <<"a=%31", Semi, Sp, "b=2">>]
\* " b=2; ;"
HdrGap == [utf8 |-> TRUE, text |-> <<Sp, "b=2", Semi, Sp, Semi>>]
\* "a=%31; bad"
HdrBad == [utf8 |-> TRUE, text |-> <<"a=%31", Semi, Sp, "bad">>]
\* a value whose bytes are not UTF-8
HdrNotUtf8 == [utf8 |-> FALSE, text |-> <<>>]

CookieHeaderValues == {HdrAB, HdrGap, HdrBad, HdrNotUtf8}
\* the Cookie headers a message may carry, in header order
CookieHeaders == SeqsUpTo(CookieHeaderValues, MaxCookieHeaders)

\* extensions().get::<Cookies>() is None
NoCookies == <<>>

\* Cookie::parse_encoded(..).into_owned(): the name and the percent-decoded
\* value, or an error when the piece is not name=value
parse_encoded(str) ==
    CASE str = <<"a=%31">> -> Ok([name |-> "a", value |-> "1"])
      [] str = <<"b=2">> -> Ok([name |-> "b", value |-> "2"])
      [] OTHER -> Err("MissingPair")

\* for cookie_str in s.split(';').map(|s| s.trim()): the pieces that are not
\* empty are parsed and pushed, the first that does not parse fails
RECURSIVE ParseSegs(_, _)
ParseSegs(segs, cookies) ==
    IF segs = <<>> THEN Ok(cookies)
    ELSE IF trim(Head(segs)) = <<>> THEN ParseSegs(Tail(segs), cookies)
    ELSE LET c == parse_encoded(trim(Head(segs)))
         IN  IF c.ok THEN ParseSegs(Tail(segs), Append(cookies, c.val))
             ELSE Err(c.err)

\* for hdr in self.headers().get_all(header::COOKIE)
RECURSIVE ParseHeaders(_, _)
ParseHeaders(hdrs, cookies) ==
    IF hdrs = <<>> THEN Ok(cookies)
    ELSE IF ~Head(hdrs).utf8 THEN Err("Utf8Error")
    ELSE LET r == ParseSegs(split(Head(hdrs).text), cookies)
         IN  IF r.ok THEN ParseHeaders(Tail(hdrs), r.val) ELSE r

\* cookies_of storing an empty sequence when the headers do not parse
cookies_of_keeping(m) ==
    IF m.ext = NoCookies
    THEN LET r == ParseHeaders(m.cookie, <<>>)
         IN  IF r.ok
             THEN [msg |-> [m EXCEPT !.ext = Some(r.val)], res |-> r, parsed |-> TRUE]
             ELSE [msg |-> [m EXCEPT !.ext = Some(<<>>)], res |-> r, parsed |-> TRUE]
    ELSE [msg |-> m, res |-> Ok(m.ext[1]), parsed |-> FALSE]

\* cookies_of parsing the headers at every call
cookies_of_uncached(m) ==
    LET r == ParseHeaders(m.cookie, <<>>)
    IN  IF r.ok
        THEN [msg |-> [m EXCEPT !.ext = Some(r.val)], res |-> r, parsed |-> TRUE]
        ELSE [msg |-> m, res |-> r, parsed |-> TRUE]

\* HttpMessage::cookies on the message m: the message after the call, the
\* result, and whether the headers were parsed
cookies_of(m) ==
    IF m.ext = NoCookies
    THEN LET r == ParseHeaders(m.cookie, <<>>)
         IN  IF r.ok
             THEN [msg |-> [m EXCEPT !.ext = Some(r.val)], res |-> r, parsed |-> TRUE]
             ELSE [msg |-> m, res |-> r, parsed |-> TRUE]
    ELSE [msg |-> m, res |-> Ok(m.ext[1]), parsed |-> FALSE]

\* The history of the cookies() calls: whether one was made, the result of
\* the last call, the first sequence a call returned (Option), whether a
\* call parsed the headers after that, whether a call was answered while
\* the headers would have parsed to something else, whether the last call
\* parsed the headers, and whether a call has failed.
CkInit ==
    [called |-> FALSE, res |-> Ok(<<>>), first |-> NoCookies, reparsed |-> FALSE,
     stale |-> FALSE, parsed |-> FALSE, failed |-> FALSE]

\* HttpMessage::cookies
cookies ==
    /\ LET out == cookies_of(msg)
           fresh == ParseHeaders(msg.cookie, <<>>)
       IN  /\ msg' = out.msg
           /\ ck' = [called |-> TRUE,
                     res |-> out.res,
                     first |-> IF ck.first = NoCookies /\ out.res.ok
                               THEN Some(out.res.val) ELSE ck.first,
                     reparsed |-> ck.reparsed \/ (ck.first # NoCookies /\ out.parsed),
                     stale |-> ck.stale \/
                               (ck.first # NoCookies /\ fresh # Ok(ck.first[1])),
                     parsed |-> out.parsed,
                     failed |-> ck.failed \/ ~out.res.ok]
    /\ UNCHANGED <<neg, src, rlVars, mbVars, ueVars>>

\* the owner of the message replaces its Cookie headers
set_cookie_headers(hdrs) ==
    /\ msg' = [msg EXCEPT !.cookie = hdrs]
    /\ UNCHANGED <<ck, neg, src, rlVars, mbVars, ueVars>>

(***************************************************************************)
(* Content negotiation.  neg keeps the answer of the last content_type()   *)
(* call of the owner and, in enc, the answer of its last encoding() call   *)
(* with the header it was asked of (Option: <<>> or <<answer>>).           *)
(***************************************************************************)
NegInit == [asked |-> FALSE, res |-> <<>>, enc |-> <<>>]

\* the owner calls content_type()
ask_content_type ==
    /\ neg' = [neg EXCEPT !.asked = TRUE, !.res = content_type(msg)]
    /\ UNCHANGED <<ck, msg, src, rlVars, mbVars, ueVars>>

\* the owner calls encoding()
ask_encoding ==
    /\ neg' = [neg EXCEPT !.enc = <<[of |-> msg.ctype, res |-> encoding(msg)]>>]
    /\ UNCHANGED <<ck, msg, src, rlVars, mbVars, ueVars>>

\* the owner replaces the Content-Type header
set_content_type(h) ==
    /\ msg.ctype # h
    /\ msg' = [msg EXCEPT !.ctype = h]
    /\ UNCHANGED <<ck, neg, src, rlVars, mbVars, ueVars>>

(***************************************************************************)
(* Specifications                                                          *)
(***************************************************************************)
MsgInit(ctypes, clens, bytes) ==
    /\ msg \in [ctype : ctypes, clen : clens, payload : {Stream}]
    /\ src = SrcInit(bytes)

ViewsInit ==
    /\ rl = NoView /\ rlRes = NoRes
    /\ rlHist = HistInit
    /\ mb = NoView /\ mbRes = NoRes /\ mbHist = FutInit
    /\ ue = NoView /\ ueRes = NoRes /\ ueHist = FutInit
    /\ ck = CkInit
    /\ neg = NegInit

\* a message read line by line
InitLines ==
    /\ MsgInit({CtAbsent, CtPlainUtf8, CtPlainLatin2, CtPlainBogus, CtGarbage}, {ClAbsent},
               Byte)
    /\ ViewsInit

NextLines ==
    \/ Readlines_new
    \/ \E n \in 1..MaxLimit : Readlines_limit(n)
    \/ Readlines_poll

SpecLines == InitLines /\ [][NextLines]_vars

\* a message read line by line to its end: the stream delivers what it has
\* and then its end, and the caller demands again after every NotReady
InitDrain ==
    /\ MsgInit({CtAbsent, CtPlainBogus}, {ClAbsent}, LineByte)
    /\ ViewsInit

NextDrain ==
    \/ Readlines_new
    \/ \E n \in 1..MaxLimit : Readlines_limit(n)
    \/ Readlines_poll

\* a demand in which the stream delivers a chunk or the decoder answers
\* something else than NotReady
Readlines_advance ==
    Readlines_poll /\ (src' # src \/ rlRes'.kind # "NotReady")

SpecDrain == InitDrain /\ [][NextDrain]_vars /\ WF_vars(Readlines_advance)

\* the Content-Length headers of the model
ContentLengths ==
    {ClAbsent, ClGarbage, ClValue(1000000)} \cup {ClValue(n) : n \in 0..MaxDeclared}

\* a message whose body is collected, as bytes or as a form
InitBody ==
    /\ MsgInit({CtAbsent, CtForm, CtFormUpper, CtFormLatin2, CtFormBogus, CtPlain},
               ContentLengths, BodyByte)
    /\ ViewsInit

\* no view of the message has been made
Unclaimed == ~rl.made /\ ~mb.made /\ ~ue.made

\* the caller obtains one view of the message, body() or urlencoded(), and
\* drives it
NextBody ==
    \/ Unclaimed /\ MessageBody_new
    \/ \E n \in 1..MaxLimit : MessageBody_limit(n)
    \/ MessageBody_poll
    \/ Unclaimed /\ UrlEncoded_new
    \/ \E n \in 1..MaxLimit : UrlEncoded_limit(n)
    \/ UrlEncoded_poll

SpecBody == InitBody /\ [][NextBody]_vars

\* a message without headers whose body is read by lines or collected whole,
\* the answers of the stream being kept in the history of the decoder
InitPaced ==
    /\ MsgInit({CtAbsent}, {ClAbsent}, Byte)
    /\ rl = NoView /\ rlRes = NoRes
    /\ rlHist = [HistInit EXCEPT !.traced = TRUE]
    /\ mb = NoView /\ mbRes = NoRes /\ mbHist = FutInit
    /\ ue = NoView /\ ueRes = NoRes /\ ueHist = FutInit
    /\ ck = CkInit
    /\ neg = NegInit

\* the caller obtains one view of the message, readlines() or body(), and
\* drives it
NextPaced ==
    \/ Unclaimed /\ Readlines_new
    \/ \E n \in 1..MaxLimit : Readlines_limit(n)
    \/ Readlines_poll
    \/ Unclaimed /\ MessageBody_new
    \/ \E n \in 1..MaxLimit : MessageBody_limit(n)
    \/ MessageBody_poll

SpecPaced == InitPaced /\ [][NextPaced]_vars

\* Two runs side by side: body() and urlencoded() are each obtained from a
\* message with these headers, given the same limits and demanded together,
\* their streams giving the same answers (src stands for both streams).
InitTwin ==
    /\ MsgInit({CtForm, CtFormLatin2}, ContentLengths, BodyByte)
    /\ ViewsInit

Twin_new ==
    /\ Unclaimed
    /\ mb' = MessageBody_from(msg).view
    /\ ue' = UrlEncoded_from(msg).view
    /\ msg' = UrlEncoded_from(msg).msg
    /\ UNCHANGED <<ck, neg, src, mbRes, mbHist, ueRes, ueHist, rlVars>>

Twin_limit(n) ==
    /\ mb.made /\ ue.made
    /\ mb' = [mb EXCEPT !.limit = n]
    /\ ue' = [ue EXCEPT !.limit = n]
    /\ UNCHANGED <<ck, neg, msgVars, mbRes, mbHist, ueRes, ueHist, rlVars>>

Twin_poll ==
    /\ mb.made /\ ue.made /\ ~mbHist.resolved /\ ~ueHist.resolved
    /\ \E ev \in FoldEvents(Stream, src) : \E parses \in Parses(ev) :
          LET brun == MessageBody_demand(mb, ev)
              urun == UrlEncoded_demand(ue, ev, parses)
          IN  /\ mb' = brun.mb /\ mbRes' = brun.res
              /\ ue' = urun.ue /\ ueRes' = urun.res
              /\ src' = IF brun.out.seen # "NoPoll" THEN AfterFold(Stream, src, brun.out)
                        ELSE IF urun.out.seen # "NoPoll"
                        THEN AfterFold(Stream, src, urun.out)
                        ELSE src
    /\ mbHist' = Polled(mbHist, mb.limit, mbRes',
                         SubSeq(src'.delivered, Len(src.delivered) + 1,
                                Len(src'.delivered)))
    /\ ueHist' = Polled(ueHist, ue.limit, ueRes',
                         SubSeq(src'.delivered, Len(src.delivered) + 1,
                                Len(src'.delivered)))
    /\ UNCHANGED <<ck, neg, msg, rlVars>>

NextTwin ==
    \/ Twin_new
    \/ \E n \in 1..MaxLimit : Twin_limit(n)
    \/ Twin_poll

SpecTwin == InitTwin /\ [][NextTwin]_vars

\* a message of which the caller obtains several views, in any order, each
\* with its default limit, and demands them in any order
InitShared ==
    /\ MsgInit({CtForm, CtPlain, CtPlainBogus}, {ClAbsent, ClGarbage, ClValue(1000000)},
               BodyByte)
    /\ ViewsInit

NextShared ==
    \/ Readlines_new
    \/ Readlines_poll
    \/ MessageBody_new
    \/ MessageBody_poll
    \/ UrlEncoded_new
    \/ UrlEncoded_poll

SpecShared == InitShared /\ [][NextShared]_vars

\* a message with Cookie headers, whose cookies are read again and again
\* while its owner changes the headers
InitCookies ==
    /\ msg \in [ctype : {CtAbsent}, clen : {ClAbsent}, payload : {Stream},
                 cookie : CookieHeaders, ext : {NoCookies}]
    /\ src = SrcInit(BodyByte)
    /\ ViewsInit

NextCookies ==
    \/ cookies
    \/ \E hdrs \in CookieHeaders : set_cookie_headers(hdrs)

SpecCookies == InitCookies /\ [][NextCookies]_vars

\* a message asked for its content type: the Content-Type header is absent,
\* not header text, or any text of up to MaxHeaderLen symbols
HeaderSymbols == {Sp, Semi, "application/x-www-form-urlencoded", UpperForm}
ContentTypeTexts == SeqsUpTo(HeaderSymbols, MaxHeaderLen)

InitNegotiate ==
    /\ MsgInit({CtAbsent, CtNotText} \cup {CtText(v) : v \in ContentTypeTexts},
               {ClAbsent}, BodyByte)
    /\ ViewsInit

NextNegotiate == ask_content_type

SpecNegotiate == InitNegotiate /\ [][NextNegotiate]_vars

\* a message asked for its encoding, whose owner may replace the header
ContentTypes ==
    {CtAbsent, CtNotText, CtGarbage, CtForm, CtFormUpper, CtFormLatin2,
     CtFormBogus, CtPlain, CtPlainUtf8, CtPlainLatin2, CtPlainBogus,
     CtJsonLatin2}

InitEncoding ==
    /\ MsgInit(ContentTypes, {ClAbsent}, BodyByte)
    /\ ViewsInit

NextEncoding ==
    \/ ask_encoding
    \/ \E h \in ContentTypes : set_content_type(h)

SpecEncoding == InitEncoding /\ [][NextEncoding]_vars

(***************************************************************************)
(* Claims about Readlines (checked under SpecLines)                        *)
(***************************************************************************)
\* the bytes of the yielded lines, in yield order
YieldedRaw == Concat([i \in 1..Len(rlHist.lines) |-> rlHist.lines[i].raw])
\* the text of the yielded lines, in yield order
YieldedText == Concat([i \in 1..Len(rlHist.lines) |-> rlHist.lines[i].text])
\* a run of a decoder that holds the stream, without an error so far
CleanRun == rl.made /\ rl.stream = Stream /\ ~rlHist.errored

\* C1: when readlines() has run to the end of the sequence without an
\* error, the yielded lines, concatenated in yield order, are the text of
\* the bytes the stream delivered (and they are decoded from exactly these
\* bytes).
C1_RoundTrip ==
    (CleanRun /\ rlHist.ended) =>
        /\ YieldedRaw = src.delivered
        /\ decode(rl.encoding, src.delivered).ok
        /\ YieldedText = decode(rl.encoding, src.delivered).text

\* C2: in a run without an error every yielded line but the last one ends
\* with the newline byte, and the lines are yielded in the order of their
\* bytes in the stream: together they are a prefix of the delivered bytes.
C2_TerminatedInOrder ==
    CleanRun =>
        /\ \A i \in 1..(Len(rlHist.lines) - 1) :
              LET raw == rlHist.lines[i].raw IN raw # <<>> /\ raw[Len(raw)] = NL
        /\ IsPrefix(YieldedRaw, src.delivered)

\* the first half of C2 alone: every yielded line but the last ends with '\n'
AllButLastTerminated ==
    CleanRun =>
        \A i \in 1..(Len(rlHist.lines) - 1) :
            LET raw == rlHist.lines[i].raw IN raw # <<>> /\ raw[Len(raw)] = NL

\* C3: the residual buffer never holds more bytes than the per-line limit
\* (the limit being set before the first demand).
C3_BufferWithinLimit ==
    (rl.made /\ ~rlHist.lateLimit) => Len(rl.buff) <= rl.limit

\* the chunk the stream delivered in this step
ChunkOfStep == SubSeq(src'.delivered, Len(src.delivered) + 1, Len(src'.delivered))

\* a demand that locates a newline-terminated segment longer than the limit,
\* in the unscanned residual or in the chunk just delivered, or that reaches
\* the end of the data with a residual longer than the limit
LocatesOverlong ==
    /\ rl.made /\ rl.err = None /\ rlRes'.kind # "NoRes"
    /\ \/ ~rl.checked_buff /\ FindNewline(rl.buff) > rl.limit
       \/ rlRes'.ev = "Chunk" /\ FindNewline(ChunkOfStep) > rl.limit
       \/ rlRes'.ev = "End" /\ Len(rl.buff) > rl.limit

\* such a demand fails LimitOverflow
OverlongFails == [][LocatesOverlong => rlRes'.err = "LimitOverflow"]_vars

\* C4: a demand that locates a newline-terminated segment longer than the
\* limit, or the end of the data with a residual longer than the limit,
\* fails LimitOverflow; so no yielded line is made of more bytes of the
\* stream than the limit (and a line decoded as UTF-8 is a String of no more
\* bytes than the limit).
C4_SegmentWithinLimit ==
    /\ OverlongFails
    /\ [](rlRes.kind = "Line" =>
            /\ Len(rlRes.raw) <= rl.limit
            /\ rl.encoding = UTF_8 => StrLen(rlRes.text) <= rl.limit)

\* an overlong line was found in the residual after a line had been yielded,
\* and the demand failed
C4_Witness ==
    /\ rlRes.err = "LimitOverflow" /\ rlRes.ev = "NoPoll"
    /\ Len(rlHist.lines) > 0

(***************************************************************************)
(* Claims about MessageBody and UrlEncoded (checked under SpecBody)        *)
(***************************************************************************)
\* the view drains the stream of the message
MbDrains == mb.made /\ mb.fut.stream = Stream
UeDrains == ue.made /\ ue.fut.stream = Stream
\* the Content-Length of the message parses to a number
Declared == msg.clen.present /\ msg.clen.parses
\* the Content-Length of the message is present and is not a number
Undeclarable == msg.clen.present /\ ~msg.clen.parses
\* the message passes the content-type and charset checks of urlencoded()
FormTyped == to_lowercase(content_type(msg)) = FormType /\ encoding(msg).ok

\* C5: when the stream of a message whose declared length passes the check
\* ends without an error, body() completes with exactly the delivered bytes
\* in delivery order, once; and as long as the bytes delivered are at most
\* the limit (equality included) the fold does not fail Overflow.
C5_BodyIsConcatenation ==
    MbDrains =>
        /\ src.state = "eof" =>
              /\ mbRes.kind = "Ready" /\ mbRes.raw = src.delivered
              /\ mbHist.yields = 1
        /\ mbRes.kind = "Ready" => mbRes.raw = src.delivered /\ src.state = "eof"
        /\ Len(src.delivered) <= mbHist.limit0 => mbRes.err # "Overflow"
        /\ mbHist.yields <= 1

\* a body of exactly `limit` bytes, in more than one byte, was collected on a
\* message that declared its length
C5_Witness ==
    /\ MbDrains /\ Declared
    /\ mbRes.kind = "Ready" /\ mbRes.raw = <<97, 161>>
    /\ mbHist.limit0 = Len(mbRes.raw)

\* C6: whatever length is declared, once the delivered bytes exceed the
\* limit body() has failed with Overflow and has yielded nothing.
C6_FalseLengthOverflows ==
    (MbDrains /\ Len(src.delivered) > mbHist.limit0) =>
        /\ mbRes.kind = "Err" /\ mbRes.err = "Overflow"
        /\ mbHist.resolved /\ mbHist.yields = 0

\* the message declared a length within the limit and delivered more
C6_Witness ==
    /\ MbDrains /\ Declared /\ msg.clen.n <= mbHist.limit0
    /\ Len(src.delivered) > mbHist.limit0
    /\ mbRes.err = "Overflow"

\* C7: the buffer of the fold of body() and of urlencoded() never holds more
\* bytes than the limit that was set at the first demand.
C7_BodyWithinLimit ==
    /\ mb.made => Len(mb.fut.body) <= mbHist.limit0
    /\ ue.made => Len(ue.fut.body) <= ueHist.limit0

\* a buffer as long as the limit of the first demand, the limit having been
\* lowered since
C7_Witness ==
    /\ UeDrains /\ ue.fut.state = "folding"
    /\ Len(ue.fut.body) = ueHist.limit0 /\ ue.limit < ueHist.limit0

\* C8: a declared length greater than the limit at the first demand makes
\* the first demand on body(), and on urlencoded() of a message that passes
\* its content-type checks, fail with Overflow, the stream never having been
\* polled.
C8_DeclaredOverflow ==
    /\ (mbHist.demanded /\ Declared /\ msg.clen.n > mbHist.limit0) =>
          /\ mbHist.first.kind = "Err" /\ mbHist.first.err = "Overflow"
          /\ mbRes = mbHist.first /\ ~src.polled
    /\ (ueHist.demanded /\ FormTyped /\ Declared /\ msg.clen.n > ueHist.limit0) =>
          /\ ueHist.first.kind = "Err" /\ ueHist.first.err = "Overflow"
          /\ ueRes = ueHist.first /\ ~src.polled

\* urlencoded() with a limit set after construction failed on the declared
\* length
C8_Witness ==
    /\ ueHist.demanded /\ FormTyped /\ Declared
    /\ ueHist.limit0 < msg.clen.n /\ msg.clen.n <= MaxDeclared
    /\ ueRes.err = "Overflow"

\* C9: making the view reports nothing, whatever the headers are; with a
\* declared length n and the limit m of the first demand, the first demand
\* fails Overflow on the declared length (the stream not polled) if and only
\* if n > m, and when n <= m it goes on to poll the stream.
C9_DeclaredCheckAtFirstDemand ==
    /\ (mb.made /\ ~mbHist.demanded) => mbRes = NoRes
    /\ (mbHist.demanded /\ Declared) =>
          /\ (mbHist.first.err = "Overflow" /\ mbHist.first.ev = "NoPoll")
                <=> msg.clen.n > mbHist.limit0
          /\ msg.clen.n <= mbHist.limit0 => mbHist.first.ev # "NoPoll"

\* the limit was raised to the declared length before the first demand,
\* which then drained the stream
C9_Witness ==
    /\ mbHist.demanded /\ Declared
    /\ msg.clen.n = mbHist.limit0 /\ mbHist.limit0 = 2
    /\ mbHist.first.kind = "Ready" /\ mbHist.first.raw # <<>>

\* C10: a Content-Length that is present and does not parse makes the first
\* demand on body(), and on urlencoded() of a message that passes its
\* content-type checks, fail with UnknownLength, whatever the limit is, the
\* stream never having been polled.
C10_UnknownLength ==
    /\ (mbHist.demanded /\ Undeclarable) =>
          /\ mbHist.first.kind = "Err" /\ mbHist.first.err = "UnknownLength"
          /\ mbRes = mbHist.first /\ ~src.polled
    /\ (ueHist.demanded /\ FormTyped /\ Undeclarable) =>
          /\ ueHist.first.kind = "Err" /\ ueHist.first.err = "UnknownLength"
          /\ ueRes = ueHist.first /\ ~src.polled

\* body() with a limit set after construction failed with UnknownLength
C10_Witness ==
    /\ mbHist.demanded /\ Undeclarable
    /\ mbHist.limit0 # DefaultLimit
    /\ mbRes.err = "UnknownLength"

(***************************************************************************)
(* Claims about the pace of the stream (checked under SpecPaced)           *)
(***************************************************************************)
\* The sequence of lines of a decoder r demanded again and again while the
\* stream answers `script` without ever being not ready: the lines it yields
\* after `lines` and the outcome (None while the script does not decide it).
RECURSIVE RefRun(_, _, _)
RefRun(r, script, lines) ==
    IF r.err # None THEN [lines |-> lines, outcome |-> r.err]
    ELSE IF ~r.checked_buff /\ FindNewline(r.buff) > 0
    THEN LET out == PollBuffered(r)
         IN  IF out.res.kind = "Err"
             THEN [lines |-> lines, outcome |-> out.res.err]
             ELSE RefRun(out.rl, script, Append(lines, out.res))
    ELSE IF script = <<>> THEN [lines |-> lines, outcome |-> None]
    ELSE LET out == PollStream([r EXCEPT !.checked_buff = TRUE], Head(script))
         IN  CASE out.res.kind = "Err" -> [lines |-> lines, outcome |-> out.res.err]
               [] out.res.kind = "End" -> [lines |-> lines, outcome |-> "End"]
               [] out.res.kind = "Line" ->
                    RefRun(out.rl, Tail(script),
                           Append(lines, Saw(out.res, Head(script))))
               [] out.res.kind = "NotReady" -> RefRun(out.rl, Tail(script), lines)

\* the decoder as readlines() made it, with the limit set before the first
\* demand
RlStart ==
    [made |-> TRUE, stream |-> Stream, buff |-> <<>>, limit |-> rl.limit,
     checked_buff |-> TRUE, encoding |-> rl.encoding, err |-> None]

\* the lines and the outcome of the run so far, the lines still to be
\* demanded from the residual included
RlSoFar ==
    IF rlHist.outcome # None
    THEN [lines |-> SubSeq(rlHist.lines, 1, rlHist.settled),
          outcome |-> rlHist.outcome]
    ELSE RefRun(rl, <<>>, rlHist.lines)

\* a demand of readlines() on which the stream is not ready reports not
\* ready and leaves the residual as it was
RlQuiet ==
    [][(rl.made /\ rlRes'.ev = "NotReady") =>
          (rlRes'.kind = "NotReady" /\ rl'.buff = rl.buff)]_vars

\* a demand of body() on which the stream is not ready reports not ready,
\* the buffer having grown by the chunks delivered before that answer only
MbQuiet ==
    [][(mb.made /\ mbRes'.ev = "NotReady") =>
          (mbRes'.kind = "NotReady" /\ mb'.fut.body = mb.fut.body \o ChunkOfStep)]_vars

\* the lines and the outcome of readlines() are those of the run in which
\* the stream gives the same chunks and is never not ready
RlPlacement ==
    (rl.made /\ rl.stream = Stream /\ ~rlHist.lateLimit) =>
        RlSoFar = RefRun(RlStart, rlHist.script, <<>>)

\* the outcome of body() is decided by the bytes delivered and the way the
\* stream closed
MbPlacement ==
    (MbDrains /\ mbHist.resolved) =>
        mbRes = IF Len(src.delivered) > mbHist.limit0
                THEN Saw(Failed("Overflow"), Ev("Chunk", <<>>))
                ELSE IF src.state = "eof"
                THEN Saw(Ready(src.delivered), Ev("End", <<>>))
                ELSE Saw(Failed("Payload"), Ev("Err", <<>>))

\* C11: a demand of readlines() or of body() on which the stream reports
\* not-ready returns not-ready and adds nothing to the accumulated bytes;
\* and the outcome (the bytes of the body, the lines yielded, or the error)
\* is decided by the chunks and the closing of the stream alone, wherever
\* the stream was not ready in between.
C11_BackpressureTransparent ==
    /\ RlQuiet
    /\ MbQuiet
    /\ []RlPlacement
    /\ []MbPlacement

\* the stream was not ready after its second chunk, a line having been
\* yielded and the decoder holding a residual
C11_Witness ==
    /\ rl.made /\ rlRes.ev = "NotReady"
    /\ Len(rlHist.script) = 2 /\ Len(rlHist.lines) = 1 /\ rl.buff # <<>>

\* body() and urlencoded() report not-ready only on a demand on which the
\* last answer of the stream was not-ready
FoldSuspendsOnNotReady ==
    /\ mbRes.kind = "NotReady" => mbRes.ev = "NotReady"
    /\ ueRes.kind = "NotReady" => ueRes.ev = "NotReady"

\* C12: a demand on readlines(), body() or urlencoded() reports not-ready
\* only if the stream reported not-ready on that demand; a demand on which
\* the stream delivered a chunk or its end never reports not-ready.
C12_SuspendsOnlyOnNotReady ==
    /\ rlRes.kind = "NotReady" => rlRes.ev = "NotReady"
    /\ FoldSuspendsOnNotReady

(***************************************************************************)
(* Claims about the errors of Readlines (checked under SpecLines)          *)
(***************************************************************************)
\* C13: once a demand on readlines() has returned an error (LimitOverflow,
\* EncodingError or an error of the stream), no later demand yields a line:
\* the lines yielded are those yielded before the first error.
C13_ErrorsTerminal ==
    rlHist.errored => Len(rlHist.lines) = rlHist.settled

\* C14: readlines() on a message whose charset does not resolve (a label the
\* registry does not know, or a Content-Type that is not a MIME type) fails
\* its first demand with that content-type error, never yields a line and
\* never polls the stream of the message.
C14_PoisonedDecoder ==
    (rl.made /\ ~encoding(msg).ok) =>
        /\ rlHist.demanded => rlHist.outcome = encoding(msg).err
        /\ rlHist.lines = <<>>
        /\ ~src.polled

\* the decoder of a message with a malformed Content-Type was demanded
\* again after its error and reported the end of the sequence
C14_Witness ==
    /\ rl.made /\ msg.ctype = CtGarbage
    /\ rlHist.errored /\ rlRes.kind = "End"

(***************************************************************************)
(* Claims about the checks of UrlEncoded (checked under SpecBody)          *)
(***************************************************************************)
\* C15: when the content-type token is not application/x-www-form-urlencoded
\* in any letter case (or the charset does not resolve), the first demand on
\* urlencoded() fails with ContentType and the stream is not polled,
\* whatever the Content-Length header is; the first demand fails with
\* UnknownLength only on a message that passes these checks, and with
\* Overflow on the declared length only when the length parses as well.
C15_ContentTypeFirst ==
    ueHist.demanded =>
        /\ ~FormTyped =>
              /\ ueHist.first.kind = "Err" /\ ueHist.first.err = "ContentType"
              /\ ueRes = ueHist.first /\ ~src.polled
        /\ ueHist.first.err = "UnknownLength" => FormTyped /\ Undeclarable
        /\ (ueHist.first.err = "Overflow" /\ ueHist.first.ev = "NoPoll") =>
              FormTyped /\ Declared /\ msg.clen.n > ueHist.limit0

\* urlencoded() on a text/plain message with a Content-Length that is not a
\* number failed with ContentType
C15_Witness ==
    /\ ueHist.demanded /\ msg.ctype = CtPlain /\ Undeclarable
    /\ ueRes.err = "ContentType"

(***************************************************************************)
(* Claims about body() and urlencoded() side by side (checked under        *)
(* SpecTwin)                                                               *)
(***************************************************************************)
\* C16: on equal form-typed headers, equal limits and equal answers of the
\* stream, urlencoded() holds the same bytes as body() after every demand,
\* is not ready exactly when body() is, fails with UnknownLength, Overflow
\* or the error of the stream exactly when body() fails with that error,
\* and decodes the form from exactly the bytes body() returns.
C16_SameAccumulation ==
    (mb.made /\ ue.made) =>
        /\ ue.fut.body = mb.fut.body /\ ue.fut.state = mb.fut.state
        /\ mbRes.kind = "NotReady" <=> ueRes.kind = "NotReady"
        /\ mbRes.kind = "Err" => ueRes = mbRes
        /\ ueRes.err \in {"UnknownLength", "Overflow", "Payload"} => ueRes = mbRes
        /\ mbRes.kind = "Ready" =>
              /\ ue.fut.body = mbRes.raw
              /\ ueRes.kind = "Ready" => ueRes.raw = mbRes.raw
              /\ ueRes.kind # "Ready" => ueRes.err = "Parse"

\* both collected a body of two bytes, as many as the limit
C16_Witness ==
    /\ mb.made /\ ue.made
    /\ mbRes.kind = "Ready" /\ ueRes.kind = "Ready"
    /\ mbRes.raw = <<161, 97>> /\ mbHist.limit0 = 2

(***************************************************************************)
(* Claims about several views of one message (checked under SpecShared)    *)
(***************************************************************************)
\* the view holds the stream of the message
RlHolds == rl.made /\ rl.stream = Stream
MbHolds == mb.made /\ (mb.stream = Stream \/ mb.fut.stream = Stream)
UeHolds == ue.made /\ (ue.stream = Stream \/ ue.fut.stream = Stream)

\* C17: whatever views are obtained of a message and in whatever order, at
\* most one of them holds the stream of the message (and none while the
\* message still has it), so at most one view is ever delivered a chunk,
\* and it is the view that holds the stream.
C17_SingleClaim ==
    /\ ~(RlHolds /\ MbHolds) /\ ~(RlHolds /\ UeHolds) /\ ~(MbHolds /\ UeHolds)
    /\ msg.payload = Stream => ~(RlHolds \/ MbHolds \/ UeHolds)
    /\ rlHist.fed => RlHolds
    /\ mbHist.fed => MbHolds
    /\ ueHist.fed => UeHolds

\* three views of one message were made and demanded; body() holds the
\* stream and was delivered a chunk
C17_Witness ==
    /\ rl.made /\ mb.made /\ ue.made
    /\ rlHist.demanded /\ ueHist.demanded
    /\ MbHolds /\ mbHist.fed

\* C18: a view made after a view of the same message has ended in an error
\* (an error found when that view was made and reported by its first demand
\* included) is never delivered a chunk of the body and yields no data of it.
C18_NoReconsumption ==
    /\ rlHist.late => ~rlHist.fed /\ rlHist.lines = <<>>
    /\ mbHist.late => ~mbHist.fed /\ mbRes.raw = <<>>
    /\ ueHist.late => ~ueHist.fed /\ ueRes.raw = <<>>

(***************************************************************************)
(* Claims about cookies() (checked under SpecCookies)                      *)
(***************************************************************************)
\* C19: once a cookies() call has returned a sequence, the extensions keep
\* that sequence, every later call returns it, in the same order, and no
\* later call parses the headers, whatever the Cookie headers have become.
C19_CookiesCachedOnce ==
    ck.first # NoCookies =>
        /\ msg.ext = ck.first
        /\ ck.res.ok /\ ck.res.val = ck.first[1]
        /\ ~ck.reparsed

\* a sequence of two cookies was returned again after the headers had
\* changed to headers that do not parse to it
C19_Witness ==
    /\ ck.first # NoCookies /\ Len(ck.first[1]) = 2
    /\ ck.stale

\* a piece of a Cookie header that is not empty and is not a cookie
Malformed(piece) == piece # <<>> /\ ~parse_encoded(piece).ok

\* a Cookie header is not UTF-8 or holds a malformed piece
BadHeaders(hdrs) ==
    \E i \in 1..Len(hdrs) :
        \/ ~hdrs[i].utf8
        \/ \E k \in 1..Len(split(hdrs[i].text)) :
               Malformed(trim(split(hdrs[i].text)[k]))

\* a step that is a cookies() call
CookiesCalled == ck'.called /\ msg'.cookie = msg.cookie

\* C26: a cookies() call made while no sequence is stored parses the
\* headers; it fails when a header is not UTF-8 or holds a malformed piece,
\* and otherwise stores what it returns; after a call that failed the
\* extensions hold no Cookies entry, so that the next call parses again.
C26_FailureCachesNothing ==
    /\ []((ck.called /\ ~ck.res.ok) => (msg.ext = NoCookies /\ ck.parsed))
    /\ [][(msg.ext = NoCookies /\ CookiesCalled) =>
             /\ ck'.parsed
             /\ BadHeaders(msg.cookie) => (~ck'.res.ok /\ msg'.ext = NoCookies)
             /\ ~BadHeaders(msg.cookie) =>
                    (ck'.res.ok /\ msg'.ext = Some(ck'.res.val))]_vars

\* after a call that failed, and a change of the headers, a call returned
\* two cookies and stored them
C26_Witness ==
    /\ ck.failed /\ ck.res.ok /\ ck.parsed
    /\ Len(ck.res.val) = 2 /\ msg.ext = Some(ck.res.val)

(***************************************************************************)
(* Claims about content_type() (checked under SpecNegotiate)               *)
(***************************************************************************)
\* the part of a text before its first ';' (the whole text when it has none)
BeforeSemi(text) ==
    LET stops == {i \in 1..Len(text) : text[i] = Semi} \cup {Len(text) + 1}
        at == CHOOSE i \in stops : \A k \in stops : i <= k
    IN  SubSeq(text, 1, at - 1)

Spaces(n) == [i \in 1..n |-> Sp]

\* t is the text p without the whitespace around it
IsTrimOf(t, p) ==
    /\ t # <<>> => t[1] # Sp /\ t[Len(t)] # Sp
    /\ \E i, j \in 0..Len(p) : p = Spaces(i) \o t \o Spaces(j)

\* the header is there and is header text
Readable == msg.ctype.present /\ msg.ctype.text

\* C20 (as stated): content_type() returns the part of the header text
\* before the first ';', trimmed and converted to lower case, and the empty
\* string when the header is absent or is not header text.
C20_LowerCasedToken ==
    neg.asked =>
        IF Readable
        THEN \E t \in ContentTypeTexts :
                 /\ IsTrimOf(t, BeforeSemi(msg.ctype.value))
                 /\ neg.res = to_lowercase(t)
        ELSE neg.res = <<>>

\* C20 (amended): content_type() returns the part of the header text before
\* the first ';', trimmed of the whitespace around it and in the case it was
\* written in, and the empty string when the header is absent or is not
\* header text.
C20_TrimmedToken ==
    neg.asked =>
        IF Readable
        THEN IsTrimOf(neg.res, BeforeSemi(msg.ctype.value))
        ELSE neg.res = <<>>

\* the answer for " Application/X-WWW-Form-UrlEncoded ;": whitespace on both
\* sides was dropped, the ';' cut the text, the case was kept
C20_Witness ==
    /\ neg.asked /\ Readable
    /\ msg.ctype.value = <<Sp, UpperForm, Sp, Semi>>
    /\ neg.res = <<UpperForm>>

(***************************************************************************)
(* Claims about encoding() (checked under SpecEncoding)                    *)
(***************************************************************************)
\* the labels the registry knows, and the charset each stands for
KnownLabels == {"utf-8", "iso-8859-2", "ISO-8859-2"}
CharsetOf(label) == IF label = "utf-8" THEN UTF_8 ELSE ISO_8859_2

\* the header parses as a MIME type
ParsesAsMime(h) == h.text /\ h.mime

\* the cases of the decision
Defaulted(h) == ~h.present \/ (ParsesAsMime(h) /\ h.charset = "")
Labelled(h) == h.present /\ ParsesAsMime(h) /\ h.charset \in KnownLabels
Mislabelled(h) ==
    h.present /\ ParsesAsMime(h) /\ h.charset # "" /\ h.charset \notin KnownLabels
Unparsable(h) == h.present /\ ~ParsesAsMime(h)

\* C21: encoding() answers UTF-8 when the header is absent or its type has
\* no charset parameter, the charset of the label when the registry knows
\* it, UnknownEncoding when it does not, ParseError when the header is
\* there and does not parse as a MIME type; one of the four cases applies
\* to every header, and the answer is that of the header as it is at the
\* call.
C21_TotalDecision ==
    neg.enc # <<>> =>
        LET h == neg.enc[1].of
            r == neg.enc[1].res
        IN  /\ Defaulted(h) => r = Ok(UTF_8)
            /\ Labelled(h) => r = Ok(CharsetOf(h.charset))
            /\ Mislabelled(h) => r = Err("UnknownEncoding")
            /\ Unparsable(h) => r = Err("ParseError")
            /\ Defaulted(h) \/ Labelled(h) \/ Mislabelled(h) \/ Unparsable(h)
            /\ r \in {Ok(UTF_8), Ok(ISO_8859_2),
                       Err("UnknownEncoding"), Err("ParseError")}

\* a header that is not header text was answered ParseError; the owner has
\* since replaced it by one with a charset the registry knows
C21_Witness ==
    /\ neg.enc # <<>>
    /\ neg.enc[1].of = CtNotText /\ neg.enc[1].res = Err("ParseError")
    /\ msg.ctype = CtJsonLatin2

(***************************************************************************)
(* Claims about the state of Readlines (checked under SpecLines)           *)
(***************************************************************************)
\* the first newline of the unscanned residual lies beyond the limit
ResidualOverlong ==
    /\ rl.made /\ rl.err = None
    /\ ~rl.checked_buff /\ FindNewline(rl.buff) > rl.limit

\* a demand made in that state fails LimitOverflow, leaves the decoder as it
\* was and does not poll the stream
OverlongResidualKept ==
    [][(ResidualOverlong /\ rlRes'.kind # "NoRes") =>
           /\ rlRes' = Failed("LimitOverflow")
           /\ rl' = rl
           /\ src' = src]_vars

\* C22: a demand that fails LimitOverflow on the unscanned residual leaves
\* the residual buffer and the scanned flag as they were and polls no
\* chunk; while the limit is not changed the decoder stays in the state in
\* which the next demand fails LimitOverflow again.
C22_OverflowLeavesState ==
    /\ OverlongResidualKept
    /\ []((rlRes.err = "LimitOverflow" /\ rlRes.ev = "NoPoll") => ResidualOverlong)

\* the demand failed on a residual of two bytes under a limit of one, the
\* limit being the one set before the first demand
C22_Witness ==
    /\ rlRes.err = "LimitOverflow" /\ rlRes.ev = "NoPoll"
    /\ ResidualOverlong /\ ~rlHist.lateLimit
    /\ rl.limit = 1 /\ Len(rl.buff) = 2

\* how many times the byte b occurs in bytes
Count(b, bytes) == Cardinality({i \in 1..Len(bytes) : bytes[i] = b})

\* C24: in a run without an error, every byte the stream has delivered is
\* either in a yielded line or in the residual buffer, as many times as it
\* was delivered; when the end of the sequence is reached the residual is
\* empty, so the yielded lines are made of as many bytes as were delivered.
C24_BytesConserved ==
    CleanRun =>
        /\ \A b \in Byte :
              Count(b, src.delivered) = Count(b, YieldedRaw) + Count(b, rl.buff)
        /\ Len(src.delivered) = Len(YieldedRaw) + Len(rl.buff)
        /\ rlHist.ended => Len(YieldedRaw) = Len(src.delivered)

\* a run of four bytes in several chunks reached the end of the sequence
\* with three lines, which are not the delivered bytes in their order
C24_Witness ==
    /\ CleanRun /\ rlHist.ended
    /\ Len(src.delivered) = 4 /\ Len(rlHist.lines) = 3
    /\ YieldedRaw # src.delivered

\* a newline occurs in units only as the last of them
NewlineOnlyLast(units) ==
    \A k \in 1..Len(units) : units[k] = NL => k = Len(units)

\* C25: whenever checked_buff is set the residual buffer holds no newline;
\* every yielded line holds at most one newline, as its last byte (and as
\* the last character of its text), and the line made of the residual at
\* the end of the stream holds none.
C25_ScannedFlag ==
    /\ (rl.made /\ rl.checked_buff) => FindNewline(rl.buff) = 0
    /\ \A i \in 1..Len(rlHist.lines) :
          /\ NewlineOnlyLast(rlHist.lines[i].raw)
          /\ NewlineOnlyLast(rlHist.lines[i].text)
    /\ (rlRes.kind = "Line" /\ rlRes.ev = "End") => FindNewline(rlRes.raw) = 0

\* the residual was yielded as the last line at the end of the stream, after
\* a line had been found in the buffer by a scan
C25_Witness ==
    /\ rlRes.kind = "Line" /\ rlRes.ev = "End" /\ rlRes.raw # <<>>
    /\ rl.checked_buff
    /\ \E i \in 1..Len(rlHist.lines) : rlHist.lines[i].ev = "NoPoll"

(***************************************************************************)
(* Claims about the end of the line sequence (checked under SpecDrain)     *)
(***************************************************************************)
\* the decoder has answered the end of the sequence or an error
Settled == rlHist.ended \/ rlHist.errored

\* the stream has answered its end and the residual is empty
Drained == rl.made /\ rl.err = None /\ src.state = "eof" /\ rl.buff = <<>>

\* C23: a decoder whose stream delivers its chunks and then its end, and
\* which is demanded again after every NotReady, answers the end of the
\* sequence or an error after finitely many demands; and a demand made once
\* the stream has answered its end and the residual is empty (the last line
\* without newline, if any, being yielded) answers the end of the sequence.
C23_SequenceFinite ==
    /\ rl.made ~> Settled
    /\ [][(Drained /\ rlRes'.kind # "NoRes") => rlRes'.kind = "End"]_vars

\* the sequence ended after a last line without newline had been yielded
C23_Witness ==
    /\ rlHist.ended /\ ~rlHist.errored
    /\ Len(rlHist.lines) = 2
    /\ rlHist.lines[2].raw = <<97>>

====
